---- MODULE Spec2Model ----
(***************************************************************************)
(* Model of the Demucs separation API (src/main.py): the JOBS table, the   *)
(* /separate and /status handlers, and the background worker process_audio *)
(* with its engine call, S3 uploads and temporary-file cleanup.            *)
(*                                                                         *)
(* process_audio is a plain function scheduled as a background task, so    *)
(* each job's worker runs in its own thread: its statements interleave     *)
(* with the handlers (which run on the event loop) and with the workers of *)
(* other jobs.  One action models one statement (or one run of statements  *)
(* that touch only the worker's locals) of process_audio.                  *)
(***************************************************************************)
EXTENDS Integers, FiniteSets, Sequences, TLC

\* Number of job identifiers the model hands out (uuid4 values, never reused).
MaxJobs == 2

Jobs == 1..MaxJobs

\* Python's None.
None == "None"

\* main.py:33
AVAILABLE_MODELS == {"htdemucs", "htdemucs_ft", "mdx_extra", "mdx_q"}

\* The literal list ["vocals", "drums", "bass", "other"] of main.py:139, 181, 226.
Stems == <<"vocals", "drums", "bass", "other">>

Canon == {Stems[n] : n \in 1..Len(Stems)}

\* Progress values, in tenths (0.1, 0.2, 0.8, 1.0).
Progress_0_1 == 1
Progress_0_2 == 2

\* A variant of line 130 that writes 0.1 again; C17 tells it from the code.
Progress_0_8_Lower == Progress_0_1

Progress_0_8 == 8

Progress_1_0 == 10

\* Form values a client may send.
ModelInputs == {"htdemucs", "demucs_v9"}
TwoStemsInputs == {None, "drums", "piano"}

\* sys.argv of the server process before any worker has touched it.
ServerArgv == 0

\* f"no_{primary_stem}.mp3" (main.py:176); file names are kept without ".mp3".
NoStem(t) == "no_" \o t

\* The files an engine run may leave in the track directory of the job whose
\* arguments it was given: the engine is an external program, any of these
\* layouts is possible.
EngineOutputs(two_stems) ==
    IF two_stems = None
    THEN {Canon, Canon \ {"other"}, {}}
    ELSE {{two_stems, NoStem(two_stems)}, {two_stems}, {NoStem(two_stems)},
          {two_stems, NoStem(two_stems), "other"}}

\* Outcomes of s3_client.upload_file: it returns, raises ClientError, or
\* raises another exception (which upload_to_s3 does not catch).
UploadOutcomes == {"ok", "ClientError", "OtherError"}

\* Outcomes of a filesystem call (mkdtemp, rmtree, remove).
FsOutcomes == {"ok", "OSError"}

\* str(e) of the exceptions process_audio can see, as (kind, stems named).
Err(kind, stems) == [kind |-> kind, stems |-> stems]

VARIABLES
    JOBS,           \* the job table: job id -> record
    sys_argv,       \* the process-wide sys.argv
    fs_inputs,      \* staged input files that exist (by the job they belong to)
    fs_dirs,        \* output workspaces that exist (by job)
    fs_track,       \* files in each job's track directory
    next_id,        \* the next unused job identifier
    pc,             \* per job: the worker's position in process_audio
    args,           \* per job: the arguments process_audio was scheduled with
    output_dir,     \* per job: whether the local output_dir is bound
    original_argv,  \* per job: the local original_argv
    idx,            \* per job: position of the loop of line 139 in Stems
    stems,          \* per job: the local dict stems
    result,         \* per job: the local dict result
    exc,            \* per job: the exception the handler of line 199 caught
    observed        \* per job: what its worker has met so far (history)

vars == <<JOBS, sys_argv, fs_inputs, fs_dirs, fs_track, next_id, pc, args,
          output_dir, original_argv, idx, stems, result, exc, observed>>

worker_locals == <<args, output_dir, original_argv, idx, stems, result, exc>>
fs == <<fs_inputs, fs_dirs, fs_track>>

EmptyDict == [k \in {} |-> None]

\* History of one worker: the files its exists() calls found, and the calls
\* it made that failed ("mkdtemp", "engine", "upload", "rmtree", "remove";
\* "engine_exit" when the engine left through sys.exit).
NothingObserved == [found |-> {}, failed |-> {}]

Failed(j, call) == [observed EXCEPT ![j].failed = @ \cup {call}]

NoResponse == [op |-> "none", code |-> 0, id |-> 0, status |-> None,
               progress |-> 0, result |-> {}, error |-> {}]

\* (key :> value) merged over d: d[key] = value in Python.
DictSet(d, key, value) ==
    [k \in DOMAIN d \cup {key} |-> IF k = key THEN value ELSE d[k]]

Init ==
    /\ JOBS = EmptyDict
    /\ sys_argv = ServerArgv
    /\ fs_inputs = {}
    /\ fs_dirs = {}
    /\ fs_track = [j \in Jobs |-> {}]
    /\ next_id = 1
    /\ pc = [j \in Jobs |-> "unscheduled"]
    /\ args = [j \in Jobs |-> [model |-> None, two_stems |-> None]]
    /\ output_dir = [j \in Jobs |-> FALSE]
    /\ original_argv = [j \in Jobs |-> ServerArgv]
    /\ idx = [j \in Jobs |-> 1]
    /\ stems = [j \in Jobs |-> EmptyDict]
    /\ result = [j \in Jobs |-> EmptyDict]
    /\ exc = [j \in Jobs |-> Err(None, {})]
    /\ observed = [j \in Jobs |-> NothingObserved]

----------------------------------------------------------------------------
\* POST /separate

HttpError(op, code) == [NoResponse EXCEPT !.op = op, !.code = code]

\* A variant of lines 221-227 that does not validate two_stems; C12 tells it
\* from the code.
SeparateResponse_TwoStemsUnchecked(model, two_stems, io, job_id) ==
    IF model \notin AVAILABLE_MODELS
    THEN [op |-> "separate", code |-> 400, id |-> 0, status |-> None,
          progress |-> 0, result |-> {}, error |-> {}]
    ELSE IF io # "ok"
    THEN [op |-> "separate", code |-> 500, id |-> 0, status |-> None,
          progress |-> 0, result |-> {}, error |-> {}]
    ELSE [op |-> "separate", code |-> 200, id |-> job_id, status |-> "queued",
          progress |-> 0, result |-> {}, error |-> {}]

\* What separate_audio answers (main.py:221-227, 258, 264) when the upload is
\* staged with outcome io and the job, if one is created, gets job_id.
SeparateResponse(model, two_stems, io, job_id) ==
    IF model \notin AVAILABLE_MODELS THEN HttpError("separate", 400)
    ELSE IF two_stems # None /\ two_stems \notin Canon
    THEN HttpError("separate", 400)
    ELSE IF io # "ok" THEN HttpError("separate", 500)
    ELSE [NoResponse EXCEPT !.op = "separate", !.code = 200, !.id = job_id,
                            !.status = "queued"]

\* A variant of lines 260-264 without the unlink; C18 tells it from the code.
TempAfterFailure_NotUnlinked(staged, tmp) == staged

\* lines 262-263: the temporary files left once the handler of line 260 has
\* run for the temporary file tmp
TempAfterFailure(staged, tmp) == staged \ {tmp}

\* separate_audio, main.py:214-264.  io is the outcome of reading the upload
\* and writing it to the temporary file.  A rejected submission (400) stops
\* before the temporary file is made; a failed one (500) has made it at line
\* 233 and goes through the handler of line 260.
separate_audio(model, two_stems, io) ==
    IF SeparateResponse(model, two_stems, io, next_id).code = 400
    THEN UNCHANGED vars
    ELSE IF SeparateResponse(model, two_stems, io, next_id).code = 500
    THEN /\ fs_inputs' = TempAfterFailure(fs_inputs \cup {next_id}, next_id)
         /\ UNCHANGED <<JOBS, sys_argv, fs_dirs, fs_track, next_id, pc, args,
                        output_dir, original_argv, idx, stems, result, exc,
                        observed>>
    ELSE LET job_id == next_id IN
         /\ next_id <= MaxJobs
         /\ fs_inputs' = fs_inputs \cup {job_id}
         /\ JOBS' = DictSet(JOBS, job_id,
                            [status |-> "queued", progress |-> 0,
                             file_path |-> job_id,
                             result |-> {}, error |-> {}])
         /\ pc' = [pc EXCEPT ![job_id] = "L89"]
         /\ args' = [args EXCEPT ![job_id] =
                         [model |-> model, two_stems |-> two_stems]]
         /\ next_id' = next_id + 1
         /\ UNCHANGED <<sys_argv, fs_dirs, fs_track, output_dir,
                        original_argv, idx, stems, result, exc, observed>>

----------------------------------------------------------------------------
\* GET /status/{job_id}

\* A variant of lines 268-269 that no longer knows a job whose worker has
\* returned; C13 tells it from the code.
StatusResponse_ForgetsFinished(job_id) ==
    IF job_id \notin DOMAIN JOBS \/ pc[job_id] = "done"
    THEN [op |-> "status", code |-> 404, id |-> job_id, status |-> None,
          progress |-> 0, result |-> {}, error |-> {}]
    ELSE [op |-> "status", code |-> 200, id |-> job_id,
          status |-> JOBS[job_id].status, progress |-> JOBS[job_id].progress,
          result |-> {}, error |-> {}]

\* check_status, main.py:267-282.
StatusResponse(job_id) ==
    IF job_id \notin DOMAIN JOBS
    THEN [HttpError("status", 404) EXCEPT !.id = job_id]
    ELSE LET job == JOBS[job_id] IN
         [op |-> "status", code |-> 200, id |-> job_id,
          status |-> job.status, progress |-> job.progress,
          result |-> IF job.status = "completed" THEN job.result ELSE {},
          error |-> IF job.status = "failed" THEN job.error ELSE {}]

\* The handler only reads JOBS; its answer is StatusResponse(job_id).
check_status(job_id) ==
    /\ StatusResponse(job_id).op = "status"
    /\ UNCHANGED vars

----------------------------------------------------------------------------
\* upload_to_s3, main.py:72-83

\* f"https://{S3_BUCKET}.s3.amazonaws.com/{object_name}"
Url(object_name) == <<"https", "S3_BUCKET", object_name>>

\* None as returned by upload_to_s3 (falsy; every Url is truthy).
NoUrl == <<>>

\* f"{job_id}/{stem}.mp3" (main.py:143) and f"{job_id}/accompaniment.mp3" (173)
StemKey(job_id, stem) == <<job_id, stem>>
AccompKey(job_id) == <<job_id, "accompaniment">>

\* The value upload_to_s3 returns when upload_file returned or raised
\* ClientError; any other exception leaves upload_to_s3 (UploadRaises).
upload_to_s3(outcome, object_name) ==
    IF outcome = "ok" THEN Url(object_name) ELSE NoUrl

UploadRaises(outcome) == outcome \notin {"ok", "ClientError"}

----------------------------------------------------------------------------
\* process_audio, main.py:86-211

\* A variant of JOBS[job_id][field] = value that writes the field on every
\* record of the table; C19 tells it from the code.
SetJob_EveryRecord(job_id, field, value) ==
    [k \in DOMAIN JOBS |-> [JOBS[k] EXCEPT ![field] = value]]

\* JOBS[job_id][field] = value
SetJob(job_id, field, value) ==
    [JOBS EXCEPT ![job_id] = [@ EXCEPT ![field] = value]]

Goto(j, label) == pc' = [pc EXCEPT ![j] = label]

\* An exception raised inside the try of line 87: control moves to line 199.
Raise(j, e) ==
    /\ exc' = [exc EXCEPT ![j] = e]
    /\ Goto(j, "L201")

\* The locals of a process_audio call, before it binds any of them.
NoLocals(j) ==
    /\ output_dir' = [output_dir EXCEPT ![j] = FALSE]
    /\ original_argv' = [original_argv EXCEPT ![j] = ServerArgv]
    /\ idx' = [idx EXCEPT ![j] = 1]
    /\ stems' = [stems EXCEPT ![j] = EmptyDict]
    /\ result' = [result EXCEPT ![j] = EmptyDict]
    /\ exc' = [exc EXCEPT ![j] = Err(None, {})]

\* process_audio returns: its locals are gone.
Return(j) ==
    /\ Goto(j, "done")
    /\ NoLocals(j)

\* A variant of line 89 that leaves the status alone; C11 tells it from the
\* code.
L89_StatusNotSet(j) ==
    /\ pc[j] = "L89"
    /\ pc' = [pc EXCEPT ![j] = "L90"]
    /\ UNCHANGED <<JOBS, sys_argv, fs_inputs, fs_dirs, fs_track, next_id, args,
                   output_dir, original_argv, idx, stems, result, exc, observed>>

\* line 89
L89(j) ==
    /\ pc[j] = "L89"
    /\ JOBS' = SetJob(j, "status", "processing")
    /\ Goto(j, "L90")
    /\ UNCHANGED observed
    /\ UNCHANGED <<sys_argv, fs, next_id, worker_locals>>

\* line 90
L90(j) ==
    /\ pc[j] = "L90"
    /\ JOBS' = SetJob(j, "progress", Progress_0_1)
    /\ Goto(j, "L94")
    /\ UNCHANGED observed
    /\ UNCHANGED <<sys_argv, fs, next_id, worker_locals>>

\* line 94: output_dir = Path(tempfile.mkdtemp())
L94(j) ==
    /\ pc[j] = "L94"
    /\ \E o \in FsOutcomes :
         IF o = "ok"
         THEN /\ fs_dirs' = fs_dirs \cup {j}
              /\ output_dir' = [output_dir EXCEPT ![j] = TRUE]
              /\ Goto(j, "L117")
              /\ UNCHANGED <<exc, observed>>
         ELSE /\ Raise(j, Err("mkdtemp", {}))
              /\ observed' = Failed(j, "mkdtemp")
              /\ UNCHANGED <<fs_dirs, output_dir>>
    /\ UNCHANGED <<JOBS, sys_argv, fs_inputs, fs_track, next_id, args,
                   original_argv, idx, stems, result>>

\* lines 97-117: args is built from the locals, then progress = 0.2
L117(j) ==
    /\ pc[j] = "L117"
    /\ JOBS' = SetJob(j, "progress", Progress_0_2)
    /\ Goto(j, "L120")
    /\ UNCHANGED observed
    /\ UNCHANGED <<sys_argv, fs, next_id, worker_locals>>

\* line 120: original_argv = sys.argv
L120(j) ==
    /\ pc[j] = "L120"
    /\ original_argv' = [original_argv EXCEPT ![j] = sys_argv]
    /\ Goto(j, "L121")
    /\ UNCHANGED observed
    /\ UNCHANGED <<JOBS, sys_argv, fs, next_id, args, output_dir, idx, stems,
                   result, exc>>

\* line 121: sys.argv = ['demucs.separate'] + args.  The list names this job's
\* model, two_stems, output_dir and file_path: it is identified by the job.
L121(j) ==
    /\ pc[j] = "L121"
    /\ sys_argv' = j
    /\ Goto(j, "L124")
    /\ UNCHANGED observed
    /\ UNCHANGED <<JOBS, fs, next_id, worker_locals>>

\* lines 123-124: demucs.separate.main() parses whatever sys.argv holds now.
\* It raises an Exception; or it leaves through sys.exit, as a command-line
\* entry point does on an error (SystemExit is no Exception: line 199 does
\* not catch it and it ends process_audio); or it returns having written some
\* layout of files under the output directory named in those arguments
\* (creating it if needed).  It writes nothing when the arguments name no job
\* or the input file is gone.
L124(j) ==
    /\ pc[j] = "L124"
    /\ \/ /\ Raise(j, Err("engine", {}))
          /\ observed' = Failed(j, "engine")
          /\ UNCHANGED <<fs_dirs, fs_track, output_dir, original_argv, idx,
                         stems, result>>
       \/ /\ Return(j)
          /\ observed' = Failed(j, "engine_exit")
          /\ UNCHANGED <<fs_dirs, fs_track>>
       \/ /\ sys_argv = ServerArgv \/ sys_argv \notin fs_inputs
          /\ Goto(j, "L127")
          /\ UNCHANGED <<fs_dirs, fs_track, exc, observed, output_dir,
                         original_argv, idx, stems, result>>
       \/ /\ sys_argv # ServerArgv /\ sys_argv \in fs_inputs
          /\ \E files \in EngineOutputs(args[sys_argv].two_stems) :
               /\ fs_track' = [fs_track EXCEPT ![sys_argv] = @ \cup files]
               /\ fs_dirs' = IF files = {} THEN fs_dirs
                                           ELSE fs_dirs \cup {sys_argv}
          /\ Goto(j, "L127")
          /\ UNCHANGED <<exc, observed, output_dir, original_argv, idx, stems,
                         result>>
    /\ UNCHANGED <<JOBS, sys_argv, fs_inputs, next_id, args>>

\* line 127: sys.argv = original_argv
L127(j) ==
    /\ pc[j] = "L127"
    /\ sys_argv' = original_argv[j]
    /\ Goto(j, "L130")
    /\ UNCHANGED observed
    /\ UNCHANGED <<JOBS, fs, next_id, worker_locals>>

\* lines 130-138: progress = 0.8, the track directory is named, stems = {}
L130(j) ==
    /\ pc[j] = "L130"
    /\ JOBS' = SetJob(j, "progress", Progress_0_8)
    /\ stems' = [stems EXCEPT ![j] = EmptyDict]
    /\ idx' = [idx EXCEPT ![j] = 1]
    /\ Goto(j, "L139")
    /\ UNCHANGED observed
    /\ UNCHANGED <<sys_argv, fs, next_id, args, output_dir, original_argv,
                   result, exc>>

\* The loop of line 139 moves to its next stem, or to line 160 after the last.
NextStem(j) ==
    IF idx[j] < Len(Stems)
    THEN /\ idx' = [idx EXCEPT ![j] = @ + 1]
         /\ UNCHANGED pc
    ELSE /\ Goto(j, "L161")
         /\ UNCHANGED idx

\* lines 139-158: one iteration of the loop over the four canonical stems
L139(j) ==
    /\ pc[j] = "L139"
    /\ LET stem == Stems[idx[j]] IN
       IF stem \in fs_track[j]
       THEN \E o \in UploadOutcomes :
              LET url == upload_to_s3(o, StemKey(j, stem)) IN
              /\ observed' = [observed EXCEPT
                                ![j].found = @ \cup {stem},
                                ![j].failed = IF o = "ok" THEN @
                                              ELSE @ \cup {"upload"}]
              /\ IF UploadRaises(o)
                 THEN /\ Raise(j, Err("s3", {}))
                      /\ UNCHANGED <<idx, stems>>
                 ELSE IF url # NoUrl
                 THEN /\ stems' = [stems EXCEPT ![j] = DictSet(@, stem, url)]
                      /\ NextStem(j)
                      /\ UNCHANGED exc
                 ELSE /\ Raise(j, Err("upload", {stem}))
                      /\ UNCHANGED <<idx, stems>>
       ELSE /\ NextStem(j)
            /\ UNCHANGED <<stems, exc, observed>>
    /\ UNCHANGED <<JOBS, sys_argv, fs, next_id, args, output_dir,
                   original_argv, result>>

\* A variant of lines 165-166 that requires only three of the four stems;
\* C7 tells it from the code.
MissingStems_OtherNotRequired(d) == (Canon \ {"other"}) \ DOMAIN d

\* required_stems - set(stems.keys()), main.py:165-166
MissingStems(d) == Canon \ DOMAIN d

\* lines 181-183: every canonical key but the primary one is set to url
FillOthers(d, primary_stem, url) ==
    [k \in DOMAIN d \cup (Canon \ {primary_stem}) |->
        IF k \in Canon /\ k # primary_stem THEN url ELSE d[k]]

\* A variant of line 185 that leaves the "id" entry out of the result; C6
\* tells it from the code.
MakeResult_WithoutId(d, job_id) == d

\* line 185: result = {**stems, "id": job_id}
MakeResult(d, job_id) == DictSet(d, "id", job_id)

\* lines 160-185: the required stems are checked, the complement is uploaded
\* and result is built
L161(j) ==
    /\ pc[j] = "L161"
    /\ LET two_stems == args[j].two_stems IN
       IF two_stems # None /\ two_stems \notin DOMAIN stems[j]
       THEN /\ Raise(j, Err("not_generated", {two_stems}))
            /\ UNCHANGED <<stems, result, observed>>
       ELSE IF two_stems = None /\ MissingStems(stems[j]) # {}
       THEN /\ Raise(j, Err("missing", MissingStems(stems[j])))
            /\ UNCHANGED <<stems, result, observed>>
       ELSE IF two_stems # None /\ NoStem(two_stems) \in fs_track[j]
       THEN \E o \in UploadOutcomes :
              LET url == upload_to_s3(o, AccompKey(j))
                  filled == FillOthers(stems[j], two_stems, url) IN
              /\ observed' = [observed EXCEPT
                                ![j].found = @ \cup {NoStem(two_stems)},
                                ![j].failed = IF o = "ok" THEN @
                                              ELSE @ \cup {"upload"}]
              /\ IF UploadRaises(o)
                 THEN /\ Raise(j, Err("s3", {}))
                      /\ UNCHANGED <<stems, result>>
                 ELSE /\ stems' = [stems EXCEPT ![j] = filled]
                      /\ result' = [result EXCEPT ![j] = MakeResult(filled, j)]
                      /\ Goto(j, "L188")
                      /\ UNCHANGED exc
       ELSE /\ result' = [result EXCEPT ![j] = MakeResult(stems[j], j)]
            /\ Goto(j, "L188")
            /\ UNCHANGED <<stems, exc, observed>>
    /\ UNCHANGED <<JOBS, sys_argv, fs, next_id, args, output_dir,
                   original_argv, idx>>

\* line 188
L188(j) ==
    /\ pc[j] = "L188"
    /\ JOBS' = SetJob(j, "status", "completed")
    /\ Goto(j, "L189")
    /\ UNCHANGED observed
    /\ UNCHANGED <<sys_argv, fs, next_id, worker_locals>>

\* line 189
L189(j) ==
    /\ pc[j] = "L189"
    /\ JOBS' = SetJob(j, "progress", Progress_1_0)
    /\ Goto(j, "L190")
    /\ UNCHANGED observed
    /\ UNCHANGED <<sys_argv, fs, next_id, worker_locals>>

\* line 190
L190(j) ==
    /\ pc[j] = "L190"
    /\ JOBS' = SetJob(j, "result", {result[j]})
    /\ Goto(j, "L196")
    /\ UNCHANGED observed
    /\ UNCHANGED <<sys_argv, fs, next_id, worker_locals>>

\* shutil.rmtree(output_dir) succeeding
RemoveTree(j) ==
    /\ fs_dirs' = fs_dirs \ {j}
    /\ fs_track' = [fs_track EXCEPT ![j] = {}]

\* lines 194-197: shutil.rmtree(output_dir), then os.remove(file_path), both
\* inside the try of line 87: the first that fails raises into line 199.
\* The two calls touch only this job's own artifacts and are one step.
L196(j) ==
    /\ pc[j] = "L196"
    /\ \E rmtree, remove \in FsOutcomes :
         IF rmtree # "ok" \/ j \notin fs_dirs
         THEN /\ Raise(j, Err("rmtree", {}))
              /\ observed' = Failed(j, "rmtree")
              /\ UNCHANGED <<fs, output_dir, original_argv, idx, stems, result>>
         ELSE IF remove # "ok" \/ j \notin fs_inputs
         THEN /\ RemoveTree(j)
              /\ Raise(j, Err("remove", {}))
              /\ observed' = Failed(j, "remove")
              /\ UNCHANGED <<fs_inputs, output_dir, original_argv, idx, stems,
                             result>>
         ELSE /\ RemoveTree(j)
              /\ fs_inputs' = fs_inputs \ {j}
              /\ Return(j)
              /\ UNCHANGED observed
    /\ UNCHANGED <<JOBS, sys_argv, next_id, args>>

\* line 201, in the handler of line 199
L201(j) ==
    /\ pc[j] = "L201"
    /\ JOBS' = SetJob(j, "status", "failed")
    /\ Goto(j, "L202")
    /\ UNCHANGED observed
    /\ UNCHANGED <<sys_argv, fs, next_id, worker_locals>>

\* line 202: JOBS[job_id]["error"] = str(e)
L202(j) ==
    /\ pc[j] = "L202"
    /\ JOBS' = SetJob(j, "error", {exc[j]})
    /\ Goto(j, "L206")
    /\ UNCHANGED observed
    /\ UNCHANGED <<sys_argv, fs, next_id, worker_locals>>

\* A variant of lines 204-211 whose except clause records the cleanup error
\* on the job; C15 tells it from the code.
L206_CleanupErrorRecorded(j) ==
    /\ pc[j] = "L206"
    /\ \E rmtree \in FsOutcomes :
         IF output_dir[j] /\ j \in fs_dirs /\ rmtree # "ok"
         THEN /\ observed' = [observed EXCEPT ![j].failed = @ \cup {"rmtree"}]
              /\ JOBS' = [JOBS EXCEPT ![j].error = {Err("rmtree", {})}]
              /\ UNCHANGED <<fs_inputs, fs_dirs, fs_track>>
         ELSE /\ fs_dirs' = fs_dirs \ {j}
              /\ fs_track' = [fs_track EXCEPT ![j] = {}]
              /\ fs_inputs' = fs_inputs \ {j}
              /\ UNCHANGED <<JOBS, observed>>
    /\ pc' = [pc EXCEPT ![j] = "done"]
    /\ output_dir' = [output_dir EXCEPT ![j] = FALSE]
    /\ original_argv' = [original_argv EXCEPT ![j] = ServerArgv]
    /\ idx' = [idx EXCEPT ![j] = 1]
    /\ stems' = [stems EXCEPT ![j] = EmptyDict]
    /\ result' = [result EXCEPT ![j] = EmptyDict]
    /\ exc' = [exc EXCEPT ![j] = Err(None, {})]
    /\ UNCHANGED <<sys_argv, next_id, args>>

\* lines 204-211: the workspace is removed if output_dir is bound and exists,
\* then the input file if it exists; a failure of either call is caught at
\* line 210, which ends the cleanup.  Both calls touch only this job's own
\* artifacts and are one step.
L206(j) ==
    /\ pc[j] = "L206"
    /\ \E rmtree, remove \in FsOutcomes :
         IF output_dir[j] /\ j \in fs_dirs /\ rmtree # "ok"
         THEN /\ observed' = Failed(j, "rmtree")
              /\ UNCHANGED fs
         ELSE /\ IF output_dir[j] /\ j \in fs_dirs
                 THEN RemoveTree(j)
                 ELSE UNCHANGED <<fs_dirs, fs_track>>
              /\ IF j \in fs_inputs /\ remove = "ok"
                 THEN fs_inputs' = fs_inputs \ {j}
                 ELSE UNCHANGED fs_inputs
              /\ IF j \in fs_inputs /\ remove # "ok"
                 THEN observed' = Failed(j, "remove")
                 ELSE UNCHANGED observed
    /\ Return(j)
    /\ UNCHANGED <<JOBS, sys_argv, next_id, args>>

process_audio(j) ==
    \/ L89(j) \/ L90(j) \/ L94(j) \/ L117(j) \/ L120(j) \/ L121(j)
    \/ L124(j) \/ L127(j) \/ L130(j) \/ L139(j) \/ L161(j)
    \/ L188(j) \/ L189(j) \/ L190(j) \/ L196(j)
    \/ L201(j) \/ L202(j) \/ L206(j)

----------------------------------------------------------------------------

Next ==
    \/ \E model \in ModelInputs, two_stems \in TwoStemsInputs, io \in FsOutcomes :
         separate_audio(model, two_stems, io)
    \/ \E job_id \in Jobs : check_status(job_id)
    \/ \E j \in Jobs : process_audio(j)

Spec == Init /\ [][Next]_vars

\* The worker threads are scheduled and every call they make returns or
\* raises: each worker that can take a step eventually takes one.
FairSpec == Spec /\ \A j \in Jobs : WF_vars(process_audio(j))

----------------------------------------------------------------------------
\* Properties

Terminal == {"completed", "failed"}

Finished(j) == pc[j] = "done"

FullMode(j) == j \in DOMAIN JOBS /\ args[j].two_stems = None

ReducedMode(j) == j \in DOMAIN JOBS /\ args[j].two_stems # None

\* C1: once a job's status is Completed or Failed, no later step changes its
\* record, so a status query keeps returning the same answer.
C1_TerminalRecordFrozen ==
    [][\A j \in DOMAIN JOBS :
         JOBS[j].status \in Terminal =>
            /\ JOBS'[j] = JOBS[j]
            /\ StatusResponse(j)' = StatusResponse(j)]_vars

\* C2: whatever the worker is doing, a status query never answers Completed
\* without a result nor Failed without an error.
C2_StatusNeverHalfWritten ==
    \A job_id \in DOMAIN JOBS :
        LET r == StatusResponse(job_id) IN
        /\ r.status = "completed" => r.result # {}
        /\ r.status = "failed" => r.error # {}

\* C3: when a worker has finished, the staged input file and the output
\* workspace of its job are gone (an artifact whose own removal was tried and
\* refused by the file system is not held against the worker).
C3_CleanupOnEveryExit ==
    \A j \in Jobs :
        Finished(j) /\ JOBS[j].status \in Terminal =>
            /\ j \in fs_inputs => "remove" \in observed[j].failed
            /\ j \in fs_dirs => "rmtree" \in observed[j].failed

\* The stem references of a result dict (every key but "id").
StemKeys(r) == DOMAIN r \ {"id"}

\* C4: a reduced-mode job whose worker did not find both T.mp3 and no_T.mp3
\* is never Completed, and is Failed when its worker has finished (the engine
\* having returned or raised).
C4_ReducedNeedsBothFiles ==
    \A j \in DOMAIN JOBS :
        LET T == args[j].two_stems IN
        ReducedMode(j) /\ ~({T, NoStem(T)} \subseteq observed[j].found) =>
            /\ JOBS[j].status # "completed"
            /\ Finished(j) /\ "engine_exit" \notin observed[j].failed =>
                  JOBS[j].status = "failed"

\* C5: the result of a Completed reduced-mode job has the four canonical
\* keys, the three keys other than T hold the complement's reference and the
\* reference under T differs from it.
C5_ReducedResultReplicated ==
    \A j \in DOMAIN JOBS :
        LET T == args[j].two_stems IN
        ReducedMode(j) /\ JOBS[j].status = "completed" =>
            \A r \in JOBS[j].result :
                /\ Canon \subseteq DOMAIN r
                /\ \A k \in Canon \ {T} : r[k] = Url(AccompKey(j))
                /\ \A k \in Canon \ {T} : r[T] # r[k]

FullModeLacking(j) ==
    /\ FullMode(j)
    /\ pc[j] = "L206"
    /\ j \in fs_dirs
    /\ "engine" \notin observed[j].failed
    /\ ~(Canon \subseteq fs_track[j])

\* C7 as stated: in full mode, when the engine output lacks canonical stems
\* the job is Failed with an error naming exactly the absent stems, and no
\* result is set.
C7_MissingStemsAlwaysNamed ==
    \A j \in DOMAIN JOBS :
        FullModeLacking(j) =>
            /\ JOBS[j].status = "failed"
            /\ JOBS[j].error = {Err("missing", Canon \ fs_track[j])}
            /\ JOBS[j].result = {}

\* The worker has recorded its outcome: it is past line 202 or has returned.
Recorded(j) == pc[j] \in {"L206", "done"}

\* The engine call of j's worker did not leave through sys.exit.
EngineCameBack(j) == "engine_exit" \notin observed[j].failed

\* C7 amended: in full mode, a job whose engine call came back and whose
\* worker did not find all four canonical stems ends Failed with no result
\* set; its error names exactly the stems the worker found absent when
\* mkdtemp, the engine call and every upload of a stem that was found
\* succeeded, and is the error of the failed upload when an upload failed.
C7_MissingStemsNamedUnlessUploadFails ==
    \A j \in DOMAIN JOBS :
        /\ FullMode(j) /\ Recorded(j) /\ EngineCameBack(j)
        /\ ~(Canon \subseteq observed[j].found)
        =>
            /\ JOBS[j].status = "failed"
            /\ JOBS[j].result = {}
            /\ observed[j].failed \cap {"mkdtemp", "engine", "upload"} = {} =>
                 JOBS[j].error = {Err("missing", Canon \ observed[j].found)}
            /\ "upload" \in observed[j].failed =>
                 \E e \in JOBS[j].error : e.kind \in {"upload", "s3"}

\* The engine left three of the four stems, they were uploaded, and the job
\* failed naming the fourth.
C7_Witness ==
    \E j \in DOMAIN JOBS :
        /\ FullModeLacking(j)
        /\ fs_track[j] = Canon \ {"other"}
        /\ JOBS[j].error = {Err("missing", {"other"})}

\* C8: a job one of whose uploads failed is not Completed, and no reference
\* in the result of a Completed job is the None of a failed upload.
C8_UploadFailureFailsJob ==
    \A j \in DOMAIN JOBS :
        JOBS[j].status = "completed" =>
            /\ "upload" \notin observed[j].failed
            /\ \A r \in JOBS[j].result : \A k \in StemKeys(r) : r[k] # NoUrl

\* C9: a worker that has ended leaves its job Completed or Failed, and a job
\* whose engine call failed is Failed with the engine's error as its error.
C9_WorkerEndsTerminal ==
    \A j \in DOMAIN JOBS :
        /\ Finished(j) => JOBS[j].status \in Terminal
        /\ Recorded(j) /\ observed[j].failed \cap {"engine", "engine_exit"} # {} =>
              /\ JOBS[j].status = "failed"
              /\ JOBS[j].error = {Err("engine", {})}

\* C10: no record holds both a result and an error, a result is present only
\* while the status is Completed and an error only while it is Failed, and
\* neither field is written twice.
C10_ResultErrorExclusive ==
    /\ [](\A j \in DOMAIN JOBS :
            /\ JOBS[j].result = {} \/ JOBS[j].error = {}
            /\ JOBS[j].result # {} => JOBS[j].status = "completed"
            /\ JOBS[j].error # {} => JOBS[j].status = "failed")
    /\ [][\A j \in DOMAIN JOBS :
            /\ JOBS[j].result # {} => JOBS'[j].result = JOBS[j].result
            /\ JOBS[j].error # {} => JOBS'[j].error = JOBS[j].error]_vars

\* C11: a record is created Queued with progress 0; a Queued job's status
\* changes only to Processing; a job becomes Completed or Failed only from
\* Processing (or from the other terminal status); no status returns to Queued.
C11_QueuedThenProcessing ==
    [][\A j \in DOMAIN JOBS' :
         IF j \notin DOMAIN JOBS
         THEN JOBS'[j].status = "queued" /\ JOBS'[j].progress = 0
         ELSE /\ JOBS[j].status = "queued" =>
                   JOBS'[j].status \in {"queued", "processing"}
              /\ JOBS'[j].status \in Terminal =>
                   JOBS[j].status \in Terminal \cup {"processing"}
              /\ JOBS[j].status # "queued" => JOBS'[j].status # "queued"]_vars

\* Jobs have gone from Queued through Processing to both terminal statuses.
C11_Witness ==
    \E j, k \in DOMAIN JOBS :
        /\ Finished(j) /\ JOBS[j].status = "completed"
        /\ Finished(k) /\ JOBS[k].status = "failed"

\* The submission is one the validation of lines 221-227 must reject.
Invalid(model, two_stems) ==
    \/ model \notin AVAILABLE_MODELS
    \/ two_stems # None /\ two_stems \notin Canon

\* C12: a submission with an unsupported model or a two_stems outside the
\* four canonical stems is answered 400, the answer with which separate_audio
\* changes nothing; and every record, staged file and scheduled worker belongs
\* to a valid submission.
C12_InvalidSubmissionLeavesNoTrace ==
    /\ \A model \in ModelInputs, two_stems \in TwoStemsInputs,
          io \in FsOutcomes :
          Invalid(model, two_stems) =>
             SeparateResponse(model, two_stems, io, next_id).code = 400
    /\ \A j \in Jobs :
          j \in DOMAIN JOBS \/ j \in fs_inputs \/ pc[j] # "unscheduled" =>
             ~Invalid(args[j].model, args[j].two_stems)

\* A table that holds a job already, with identifiers left, at which the
\* invalid submissions are answered 400.
C12_Witness ==
    /\ DOMAIN JOBS # {}
    /\ next_id <= MaxJobs
    /\ \E model \in ModelInputs, two_stems \in TwoStemsInputs :
         /\ Invalid(model, two_stems)
         /\ SeparateResponse(model, two_stems, "ok", next_id).code = 400

\* The ids that submissions have returned so far.
Returned == 1..(next_id - 1)

\* C13: a status query changes nothing; it answers NotFound exactly for the
\* ids that are not in the table; the ids in the table are exactly those that
\* submissions returned, and no id ever leaves the table.
C13_StatusQueryPure ==
    /\ [](\A job_id \in Jobs :
            /\ StatusResponse(job_id).code = 404 <=> job_id \notin DOMAIN JOBS
            /\ StatusResponse(job_id).code \in {200, 404}
            /\ job_id \in Returned <=> job_id \in DOMAIN JOBS)
    /\ [][/\ DOMAIN JOBS \subseteq DOMAIN JOBS'
          /\ \A job_id \in Jobs : check_status(job_id) => JOBS' = JOBS]_vars

\* One id has been returned and its worker has finished, the other id was
\* never returned: the first is answered, the second is NotFound.
C13_Witness ==
    /\ Returned = {1}
    /\ Finished(1)
    /\ StatusResponse(1).code = 200
    /\ StatusResponse(2).code = 404

\* C14: whenever the worker of job j is about to run the engine (line 124),
\* sys.argv holds the arguments that j's worker built.
C14_EngineRunsOwnArguments ==
    \A j \in Jobs : pc[j] = "L124" => sys_argv = j

\* C15: a worker that is in the cleanup of its handler has recorded status
\* Failed and an error; the cleanup, whether its removals fail or not, leaves
\* the job's record as it is and ends with process_audio returning.
C15_CleanupFailureKeepsError ==
    /\ [](\A j \in DOMAIN JOBS :
            pc[j] = "L206" => JOBS[j].status = "failed" /\ JOBS[j].error # {})
    /\ [][\A j \in DOMAIN JOBS :
            pc[j] = "L206" =>
               /\ JOBS'[j] = JOBS[j]
               /\ pc'[j] \in {"L206", "done"}]_vars

\* An engine failure was recorded, a removal of the handler's cleanup failed,
\* and the worker returned with the engine's error still on the record.
C15_Witness ==
    \E j \in DOMAIN JOBS :
        /\ Finished(j)
        /\ observed[j].failed \cap {"rmtree", "remove"} # {}
        /\ JOBS[j].status = "failed"
        /\ JOBS[j].error = {Err("engine", {})}

\* The file whose upload the worker of j was making when an upload exception
\* was raised: the complement once it has been looked for (line 177), else
\* the stem the loop of line 139 stands at.
UploadingFile(j) ==
    IF NoStem(args[j].two_stems) \in observed[j].found
    THEN NoStem(args[j].two_stems)
    ELSE Stems[idx[j]]

\* C16: in reduced mode the outcome rests on T.mp3 and no_T.mp3 alone: an
\* upload failure that fails the job is the failure of one of these two
\* uploads, and the result of a Completed job holds no reference to another
\* stem file.
C16_UnexpectedFilesIgnored ==
    \A j \in DOMAIN JOBS :
        LET T == args[j].two_stems IN
        ReducedMode(j) =>
            /\ pc[j] = "L201" /\ exc[j].kind \in {"upload", "s3"} =>
                  UploadingFile(j) \in {T, NoStem(T)}
            /\ JOBS[j].status = "completed" =>
                  \A r \in JOBS[j].result :
                      \A k \in (Canon \ {T}) \cap DOMAIN r :
                          r[k] # Url(StemKey(j, k))

\* C17: every job's progress is between 0.0 and 1.0 (0 and 10 tenths) and no
\* step lowers it.
C17_ProgressMonotone ==
    /\ [](\A j \in DOMAIN JOBS : JOBS[j].progress \in 0..Progress_1_0)
    /\ [][\A j \in DOMAIN JOBS : JOBS'[j].progress >= JOBS[j].progress]_vars

\* One worker has finished Completed at progress 1.0 and another has finished
\* Failed part of the way.
C17_Witness ==
    \E j, k \in DOMAIN JOBS :
        /\ Finished(j) /\ JOBS[j].status = "completed"
        /\ JOBS[j].progress = Progress_1_0
        /\ Finished(k) /\ JOBS[k].status = "failed"
        /\ JOBS[k].progress = Progress_0_8

C19_WorkerWritesOwnRecord ==
    [][\A k \in DOMAIN JOBS :
         \/ JOBS'[k] = JOBS[k]
         \/ pc[k] # "unscheduled" /\ pc'[k] # pc[k]]_vars

\* One worker has finished and recorded its outcome while the record of
\* another job, whose worker has not started, is still as it was created.
C19_Witness ==
    \E j, k \in DOMAIN JOBS :
        /\ j # k
        /\ Finished(j) /\ JOBS[j].status \in Terminal
        /\ pc[k] = "L89"
        /\ JOBS[k].status = "queued" /\ JOBS[k].progress = 0

\* C20: a worker that has finished with the job Completed or Failed and whose
\* removal of the workspace failed has still deleted the staged input file
\* (or tried to and was refused).
C20_InputDeletedDespiteRmtreeFailure ==
    \A j \in DOMAIN JOBS :
        Finished(j) /\ JOBS[j].status \in Terminal
                    /\ "rmtree" \in observed[j].failed =>
            j \notin fs_inputs \/ "remove" \in observed[j].failed

====
